---------------------------- MODULE Spec2Model ----------------------------
(***************************************************************************)
(* Fixed-point numbers of krzysiubera/fixed_point_cpp.                     *)
(*                                                                         *)
(*   fp::Number<IntType, WideType, NumIntBits>  src/src/fixed_point/       *)
(*                                              fixed_point.hpp            *)
(*   fp_* functions on int32_t, 14 integer bits src/src/main.c             *)
(*   the ADC example                            src/src/main.cpp           *)
(*                                                                         *)
(* A Number object is its raw value_, an integer in the range of IntType.  *)
(* TLC's integers have 32 bits, so an intermediate of a 64 bit WideType is *)
(* never built as one integer: the product is kept as two limbs and the    *)
(* pre-shifted dividend is divided by long division (see WideProduct and   *)
(* ShiftedQuotient).  The values are those of the C++ expressions.         *)
(***************************************************************************)
EXTENDS Integers, Sequences, FiniteSets, TLC

VARIABLES
    cfg,      \* the template arguments <IntType, WideType, NumIntBits>
    phase,    \* "declared", then "accepted" or "rejected" by the requires clause
    a,        \* value_ of the left operand / the object operated on
    b,        \* value_ of the right operand of the last binary operator
    src,      \* how a was constructed: from bits, from an integer n, from a float
    op,       \* the last operation applied
    res,      \* what the last operation returned
    build     \* what the build makes of a signed overflow in main.c: "wrap" or "trap"

vars == <<cfg, phase, a, b, src, op, res, build>>

----------------------------------------------------------------------------
(* Integer primitives of C++20 / two's complement, on unbounded integers.  *)

RECURSIVE Pow2(_)
Pow2(n) == IF n = 0 THEN 1 ELSE 2 * Pow2(n - 1)

\* x << n, evaluated without loss (the caller narrows)
ShiftLeft(x, n) == x * Pow2(n)

\* x >> n, arithmetic: the sign is shifted in
RECURSIVE ShiftRight(_, _)
ShiftRight(x, n) == IF n = 0 THEN x ELSE ShiftRight(x \div 2, n - 1)

\* x & y on two's complement integers of any width
RECURSIVE BitAnd(_, _)
BitAnd(x, y) ==
    IF x = 0 \/ y = 0 THEN 0
    ELSE IF x = -1 THEN y
    ELSE IF y = -1 THEN x
    ELSE (x % 2) * (y % 2) + 2 * BitAnd(x \div 2, y \div 2)

\* ~x
BitNot(x) == (-1) - x

Magnitude(x) == IF x < 0 THEN -x ELSE x

\* x * y for y >= 0 as two limbs: x * y = hi * 2^f + lo with 0 <= lo < 2^f,
\* built by doubling, so that hi = (x * y) >> f is never formed from a product
\* wider than TLC's integers.
RECURSIVE WideProduct(_, _, _)
WideProduct(x, y, f) ==
    IF y = 0 THEN [hi |-> 0, lo |-> 0]
    ELSE LET p   == WideProduct(x, y \div 2, f)
             s   == Pow2(f)
             lo2 == 2 * p.lo + (y % 2) * (x % s)
         IN  [hi |-> 2 * p.hi + (y % 2) * (x \div s) + lo2 \div s,
              lo |-> lo2 % s]

\* (x * y) >> f
ProductShifted(x, y, f) ==
    IF y < 0 THEN WideProduct(-x, -y, f).hi ELSE WideProduct(x, y, f).hi

\* n more quotient bits of r * 2^n / d after the quotient q and remainder r
RECURSIVE LongDivide(_, _, _, _)
LongDivide(q, r, d, n) ==
    IF n = 0 THEN q
    ELSE IF r >= d - r THEN LongDivide(2 * q + 1, r - (d - r), d, n - 1)
    ELSE LongDivide(2 * q, 2 * r, d, n - 1)

\* (x << f) / d of C++: the quotient truncated toward zero (d # 0)
ShiftedQuotient(x, f, d) ==
    LET m == LongDivide(Magnitude(x) \div Magnitude(d), Magnitude(x) % Magnitude(d),
                        Magnitude(d), f)
    IN  IF (x < 0) = (d < 0) THEN m ELSE -m

----------------------------------------------------------------------------
(* Integer types: std::is_signed_v, sizeof, std::numeric_limits<T>::digits *)

IntTypes == [signed : BOOLEAN, bits : {8, 16, 32, 64, 128}]

SizeOf(T) == T.bits \div 8

Digits(T) == IF T.signed THEN T.bits - 1 ELSE T.bits

\* static_cast<T>(v): the value modulo 2^bits, in the range of T.  The two top
\* bits are handled apart so that no power above 2^(bits-2) is formed.
NarrowTo(T, v) ==
    LET q   == Pow2(T.bits - 2)
        low == v % q
        top == (v \div q) % 4
    IN  IF T.signed /\ top >= 2 THEN low + q * (top - 4) ELSE low + q * top

MinOf(T) == IF T.signed THEN -Pow2(T.bits - 2) - Pow2(T.bits - 2) ELSE 0

MaxOf(T) ==
    IF T.signed THEN -(MinOf(T) + 1) ELSE Pow2(T.bits - 1) - 1 + Pow2(T.bits - 1)

----------------------------------------------------------------------------
(* The concepts and the requires clause of Number.                         *)

SameSignedness(T1, T2) == T1.signed = T2.signed

LargerThan(T1, T2) == SizeOf(T1) > SizeOf(T2)

ValidIntBits(T, NumIntBits) == NumIntBits < Digits(T)

Max64Bits(T) == Digits(T) <= 64

Requires(c) ==
    /\ SameSignedness(c.repr, c.wide)
    /\ LargerThan(c.wide, c.repr)
    /\ ValidIntBits(c.repr, c.intBits)
    /\ Max64Bits(c.wide)

----------------------------------------------------------------------------
(* The static members of Number.                                           *)

kIsSigned(c) == c.repr.signed

kNumBits(c) == SizeOf(c.repr) * 8

kNumFracBits(c) == kNumBits(c) - c.intBits

Narrow(c, v) == NarrowTo(c.repr, v)

kScaleFactor(c) == Narrow(c, ShiftLeft(1, kNumFracBits(c)))

FracMask(c) == Narrow(c, ShiftLeft(1, kNumFracBits(c)) - 1)

FromBits(c, raw) == raw

Zero(c) == FromBits(c, 0)

Half(c) == FromBits(c, Narrow(c, ShiftLeft(1, kNumFracBits(c) - 1)))

PosOne(c) == FromBits(c, kScaleFactor(c))

NegOne(c) == FromBits(c, Narrow(c, -kScaleFactor(c)))

\* static_cast<WideType>(v).  A 64 bit WideType holds every integer of the
\* model unchanged.
Widen(c, v) == IF c.wide.bits <= 32 THEN NarrowTo(c.wide, v) ELSE v

\* Number(T i)
FromInt(c, i) == Narrow(c, ShiftLeft(Widen(c, i), kNumFracBits(c)))

\* IntPart with a logical shift: the raw value is shifted as a bit pattern
IntPartLogical(c, value) ==
    LET shifted == ShiftRight(value, kNumFracBits(c))
    IN  Narrow(c, IF value < 0 /\ kNumFracBits(c) >= 1
                  THEN shifted + Pow2(kNumBits(c) - kNumFracBits(c))
                  ELSE shifted)

IntPart(c, value) == Narrow(c, ShiftRight(value, kNumFracBits(c)))

SignBit(c, value) ==
    IF kIsSigned(c) THEN BitAnd(ShiftRight(value, kNumBits(c) - 1), 1) = 1
    ELSE FALSE

\* Sign with a zero of its own for the signed types too
SignZeroAware(c, value) ==
    IF value = 0 THEN Zero(c)
    ELSE IF SignBit(c, value) THEN NegOne(c) ELSE PosOne(c)

Sign(c, value) ==
    IF kIsSigned(c) THEN (IF SignBit(c, value) THEN NegOne(c) ELSE PosOne(c))
    ELSE (IF value = 0 THEN Zero(c) ELSE PosOne(c))

\* Abs that complements a negative value and forgets the + 1
AbsOnesComplement(c, value) ==
    IF kIsSigned(c)
    THEN FromBits(c, Narrow(c, IF SignBit(c, value) THEN BitNot(Widen(c, value))
                                                    ELSE Widen(c, value)))
    ELSE value

\* Abs with the most negative raw value special-cased to the largest one
AbsSaturating(c, value) ==
    IF kIsSigned(c)
    THEN LET raw_val == Widen(c, value)
             abs_val == IF SignBit(c, value) THEN -raw_val ELSE raw_val
         IN  FromBits(c, IF abs_val > MaxOf(c.repr) THEN MaxOf(c.repr)
                         ELSE Narrow(c, abs_val))
    ELSE value

Abs(c, value) ==
    IF kIsSigned(c)
    THEN LET raw_val == Widen(c, value)
             abs_val == IF SignBit(c, value) THEN -raw_val ELSE raw_val
         IN  FromBits(c, Narrow(c, abs_val))
    ELSE value

FracPart(c, value) == FromBits(c, Narrow(c, BitAnd(Abs(c, value), FracMask(c))))

\* operator* with the shifted product rounded toward zero
MulTruncating(c, value, other) ==
    LET this_val  == Widen(c, value)
        other_val == Widen(c, other)
        p == IF other_val < 0 THEN WideProduct(-this_val, -other_val, kNumFracBits(c))
             ELSE WideProduct(this_val, other_val, kNumFracBits(c))
    IN  FromBits(c, Narrow(c, IF p.hi < 0 /\ p.lo > 0 THEN p.hi + 1 ELSE p.hi))

\* operator*
Mul(c, value, other) ==
    LET this_val  == Widen(c, value)
        other_val == Widen(c, other)
    IN  FromBits(c, Narrow(c, ProductShifted(this_val, other_val, kNumFracBits(c))))

\* what the long division of LongDivide leaves as remainder
RECURSIVE LongRemainder(_, _, _)
LongRemainder(r, d, n) ==
    IF n = 0 THEN r
    ELSE IF r >= d - r THEN LongRemainder(r - (d - r), d, n - 1)
    ELSE LongRemainder(2 * r, d, n - 1)

\* operator/ with the quotient rounded toward minus infinity
DivFlooring(c, value, other) ==
    LET this_val       == Widen(c, value)
        other_wide_val == Widen(c, other)
        quotient == ShiftedQuotient(this_val, kNumFracBits(c), other_wide_val)
        inexact  == LongRemainder(Magnitude(this_val) % Magnitude(other_wide_val),
                                  Magnitude(other_wide_val), kNumFracBits(c)) # 0
    IN  FromBits(c, Narrow(c, IF inexact /\ (this_val < 0) # (other_wide_val < 0)
                              THEN quotient - 1 ELSE quotient))

\* operator/ that shifts after the divide
DivPostShift(c, value, other) ==
    FromBits(c, Narrow(c, ShiftLeft(ShiftedQuotient(Widen(c, value), 0, Widen(c, other)),
                                    kNumFracBits(c))))

\* operator/ (other # 0)
Div(c, value, other) ==
    LET other_wide_val == Widen(c, other)
    IN  FromBits(c, Narrow(c, ShiftedQuotient(Widen(c, value), kNumFracBits(c),
                                              other_wide_val)))

\* value_ + other.value_ overflows the type it is computed in.  Operands
\* narrower than int are promoted to int, where the sum always fits; an
\* unsigned sum wraps; a signed sum of the full width is undefined when it
\* leaves the range of the type.
AddOverflows(c, value, other) ==
    /\ kIsSigned(c) /\ c.repr.bits >= 32
    /\ \/ value > 0 /\ other > 0 /\ other > MaxOf(c.repr) - value
       \/ value < 0 /\ other < 0 /\ other < MinOf(c.repr) - value

\* value_ - other.value_ overflows the type it is computed in
SubOverflows(c, value, other) ==
    /\ kIsSigned(c) /\ c.repr.bits >= 32
    /\ \/ other < 0 /\ value > MaxOf(c.repr) + other
       \/ other > 0 /\ value < MinOf(c.repr) + other

\* value_ + other.value_ converted to IntType; an overflowing signed sum as
\* two's complement hardware wraps it
WrapSum(c, value, other) ==
    IF ~AddOverflows(c, value, other) THEN Narrow(c, value + other)
    ELSE IF value > 0 THEN ((value + MinOf(c.repr)) + other) + MinOf(c.repr)
    ELSE ((value - MinOf(c.repr)) + other) - MinOf(c.repr)

\* value_ - other.value_ converted to IntType, wrapped likewise
WrapDifference(c, value, other) ==
    IF ~SubOverflows(c, value, other) THEN Narrow(c, value - other)
    ELSE IF other < 0 THEN ((value + MinOf(c.repr)) - other) + MinOf(c.repr)
    ELSE ((value - MinOf(c.repr)) - other) - MinOf(c.repr)

\* operator+
Add(c, value, other) == FromBits(c, WrapSum(c, value, other))

\* operator- with its operands exchanged
SubReversed(c, value, other) == FromBits(c, WrapDifference(c, other, value))

\* operator- (binary)
Sub(c, value, other) == FromBits(c, WrapDifference(c, value, other))

\* operator*=: the left operand and the right operand after the call
MulAssign(c, value, other) ==
    LET this_wide_val  == Widen(c, value)
        other_wide_val == Widen(c, other)
    IN  [value_ |-> Narrow(c, ProductShifted(this_wide_val, other_wide_val,
                                             kNumFracBits(c))),
         other |-> other]

\* operator/= (other # 0)
DivAssign(c, value, other) ==
    LET other_wide_val == Widen(c, other)
    IN  [value_ |-> Narrow(c, ShiftedQuotient(Widen(c, value), kNumFracBits(c),
                                              other_wide_val)),
         other |-> other]

\* operator+=: the left operand and the right operand after the call
AddAssign(c, value, other) ==
    [value_ |-> WrapSum(c, value, other), other |-> other]

\* operator-=
SubAssign(c, value, other) ==
    [value_ |-> WrapDifference(c, value, other), other |-> other]

----------------------------------------------------------------------------
(* float to fixed point: Number(float f) and float_to_fp of main.c.  The   *)
(* literal num/den is first the nearest binary32 value m * 2^-k, with m of *)
(* 24 bits and ties to even; times 2^f this is exact, and the cast to the  *)
(* integer type truncates toward zero.  For 0 < |num/den| < 2^24.          *)

RECURSIVE Exponent(_, _, _)
Exponent(num, den, k) ==
    IF (num * Pow2(k)) \div den >= Pow2(23) THEN k ELSE Exponent(num, den, k + 1)

Mantissa(num, den, k) ==
    LET p  == num * Pow2(k)
        fl == p \div den
        r  == p % den
    IN  IF 2 * r > den \/ (2 * r = den /\ fl % 2 = 1) THEN fl + 1 ELSE fl

FloatToFixed(num, den, f) ==
    IF num = 0 THEN 0
    ELSE LET k   == Exponent(Magnitude(num), den, 0)
             m   == Mantissa(Magnitude(num), den, k)
             mag == IF f >= k THEN m * Pow2(f - k) ELSE m \div Pow2(k - f)
         IN  IF num < 0 THEN -mag ELSE mag

\* Number(float f), for an f inside the range of IntType
FromFloat(c, num, den) == FloatToFixed(num, den, kNumFracBits(c))

----------------------------------------------------------------------------
(* main.c: fp_int_t is int32_t.  Its constants are folded by the compiler, *)
(* which shifts into and out of the sign bit as two's complement does.     *)

FP_NUM_BITS == 32

FP_INT_BITS == 14

FP_FRAC_BITS == FP_NUM_BITS - FP_INT_BITS

FP_SCALE == FP_FRAC_BITS

fp_int_t == [signed |-> TRUE, bits |-> FP_NUM_BITS]

INT_MAX == MaxOf(fp_int_t)

\* the sum x + y of two int does not fit int: undefined behaviour
SumOverflows(x, y) ==
    \/ x > 0 /\ y > 0 /\ y > INT_MAX - x
    \/ x < 0 /\ y < 0 /\ y < (-INT_MAX - 1) - x

\* x + y of int; an overflowing sum as two's complement wraps it
Add32(x, y) ==
    IF ~SumOverflows(x, y) THEN x + y
    ELSE IF x > 0 THEN (x - INT_MAX - 1) + (y - INT_MAX - 1)
    ELSE (x + INT_MAX + 1) + (y + INT_MAX + 1)

\* x << n of int
RECURSIVE Shl32(_, _)
Shl32(x, n) == IF n = 0 THEN x ELSE Shl32(Add32(x, x), n - 1)

FP_SCALE_FACTOR == Shl32(1, FP_SCALE)

FP_INT_MASK == Shl32(Shl32(1, FP_INT_BITS) - 1, FP_FRAC_BITS)

FP_FRAC_MASK == Shl32(1, FP_FRAC_BITS) - 1

FP_FROM_INT(x) == Shl32(x, FP_SCALE)

FP_VAL_ZERO == 0

FP_VAL_HALF == Shl32(1, FP_FRAC_BITS - 1)

FP_VAL_POS_ONE == FP_FROM_INT(1)

FP_VAL_NEG_ONE == FP_FROM_INT(-1)

FP_SIGN_BIT(x) == BitAnd(ShiftRight(x, FP_NUM_BITS - 1), 1)

FP_SIGN(x) == IF FP_SIGN_BIT(x) = FP_VAL_ZERO THEN FP_VAL_POS_ONE ELSE FP_VAL_NEG_ONE

float_to_fp(num, den) == FloatToFixed(num, den, FP_SCALE)

fp_abs(x) == IF FP_SIGN_BIT(x) = 0 THEN x ELSE Add32(BitNot(x), 1)

fp_frac(x) == BitAnd(fp_abs(x), FP_FRAC_MASK)

fp_floor(x) ==
    LET frac == fp_frac(x)
    IN  IF frac = 0 THEN x
        ELSE IF FP_SIGN_BIT(x) = 0 THEN BitAnd(FP_INT_MASK, x)
        ELSE Add32(BitAnd(FP_INT_MASK, x), FP_VAL_POS_ONE)

fp_ceil(x) ==
    LET frac == fp_frac(x)
    IN  IF frac = 0 THEN x ELSE Add32(fp_floor(x), FP_SIGN(x))

\* fp_round that leaves an exact half to fp_floor
fp_round_half_down(x) ==
    LET frac == fp_frac(x)
    IN  IF frac > FP_VAL_HALF THEN fp_ceil(x) ELSE fp_floor(x)

fp_round(x) ==
    LET frac == fp_frac(x)
    IN  IF frac >= FP_VAL_HALF THEN fp_ceil(x) ELSE fp_floor(x)

\* The int sums above that overflow are undefined behaviour.  A build either
\* wraps them, which is what the functions above return, or traps (-ftrapv):
\* these say when a call meets such a sum.
fp_abs_overflows(x) == FP_SIGN_BIT(x) # 0 /\ SumOverflows(BitNot(x), 1)

fp_floor_overflows(x) ==
    \/ fp_abs_overflows(x)
    \/ /\ fp_frac(x) # 0
       /\ FP_SIGN_BIT(x) # 0
       /\ SumOverflows(BitAnd(FP_INT_MASK, x), FP_VAL_POS_ONE)

fp_ceil_overflows(x) ==
    \/ fp_abs_overflows(x)
    \/ /\ fp_frac(x) # 0
       /\ fp_floor_overflows(x) \/ SumOverflows(fp_floor(x), FP_SIGN(x))

fp_round_overflows(x) ==
    \/ fp_abs_overflows(x)
    \/ IF fp_frac(x) >= FP_VAL_HALF THEN fp_ceil_overflows(x) ELSE fp_floor_overflows(x)

----------------------------------------------------------------------------
(* The instantiations and the inputs explored.                             *)

\* NumIntBits ranges over 0 .. MaxIntBits in the candidate instantiations
MaxIntBits == 33

\* Number(T i) is tried on the integers up to IntMargin outside the range
\* that NumIntBits integer bits hold
IntMargin == 2

Config(reprT, wideT, n) == [repr |-> reprT, wide |-> wideT, intBits |-> n]

Candidates == {Config(r, w, n) : r \in IntTypes, w \in IntTypes, n \in 0 .. MaxIntBits}

\* The 32 bit instantiations of the repository: 14 integer bits (S32_14 and
\* U32_14 of main.cpp, FP_INT_BITS of main.c), 16 (FP_S32_16 and FP_U32_16 of
\* the tests); 18 is the split the ADC scenario is stated for.
IntBits32 == {14, 16, 18}

\* Values are explored in the instantiations whose WideType has twice the
\* width of IntType: all of those on 8 bits, with every raw value, and the
\* 32 bit ones above, with sampled raw values.
Explored(c) ==
    /\ c.wide.bits = 2 * c.repr.bits
    /\ \/ c.repr.bits = 8
       \/ c.repr.bits = 32 /\ c.intBits \in IntBits32

\* the integers n that NumIntBits integer bits hold
IntRange(c) ==
    IF c.intBits = 0 THEN (IF kIsSigned(c) THEN {} ELSE {0})
    ELSE IF kIsSigned(c)
         THEN -Pow2(c.intBits - 1) .. Pow2(c.intBits - 1) - 1
         ELSE 0 .. Pow2(c.intBits) - 1

\* integer and fractional parts of the sampled 32 bit raw values
IntSamples == {-123, -10, -3, -1, 0, 1, 3, 10, 123}

Samples32(c) ==
    LET s == kScaleFactor(c)
    IN  {k * s + d : k \in {i \in IntSamples : kIsSigned(c) \/ i >= 0},
                     d \in {0, 1, s \div 4, s \div 2, s - 1}}

Raws(c) ==
    IF c.repr.bits = 8 THEN MinOf(c.repr) .. MaxOf(c.repr) ELSE Samples32(c)

\* the right operands of the binary operators
Operands(c) ==
    LET s == kScaleFactor(c)
    IN  IF c.repr.bits = 8
        THEN {Narrow(c, v) : v \in {MinOf(c.repr), MinOf(c.repr) + 1, -3, -1, 0, 1, 2, 3,
                                    Half(c), s, s + 1, -s, MaxOf(c.repr) - 1, MaxOf(c.repr)}}
        ELSE {s \div 2, s, s + s \div 4, 2 * s + s \div 2, 3 * s}
             \cup (IF kIsSigned(c) THEN {-s, -3 * s, -(s \div 2)} ELSE {})

\* the right operands of + and -: those of * and /, and for the signed 32 bit
\* types the two ends of the range, with which the sum leaves the type
AddOperands(c) ==
    Operands(c) \cup (IF c.repr.bits = 32 /\ kIsSigned(c)
                      THEN {MinOf(c.repr), MaxOf(c.repr)} ELSE {})

IntInputs(c) ==
    IF c.repr.bits = 8
    THEN {n \in -(Pow2(7) + IntMargin) .. Pow2(8) + IntMargin :
            \E m \in IntRange(c) \cup {0} : Magnitude(n - m) <= IntMargin}
    ELSE {i \in IntSamples : kIsSigned(c) \/ i >= 0}

FromBitsSrc == [kind |-> "bits", n |-> 0]

----------------------------------------------------------------------------
(* Spec: a translation unit instantiates Number and uses its operations.   *)

Init ==
    /\ cfg \in Candidates
    /\ phase = "declared"
    /\ a = 0
    /\ b = 0
    /\ src = FromBitsSrc
    /\ op = "none"
    /\ res = 0
    /\ build = "wrap"

\* the requires clause is evaluated when the template is instantiated
Instantiate ==
    /\ phase = "declared"
    /\ phase' = IF Requires(cfg) THEN "accepted" ELSE "rejected"
    /\ UNCHANGED <<cfg, a, b, src, op, res, build>>

Usable == phase = "accepted" /\ Explored(cfg)

\* The object a is constructed once.  The operators below leave it as it is,
\* so what they return is the same wherever in the run they are applied: they
\* are applied to the object as constructed.
Fresh == Usable /\ op = "none"

Constructed == Usable /\ op \in {"FromBits", "FromInt"}

\* a = Number::FromBits(raw)
DoFromBits ==
    /\ Fresh
    /\ \E raw \in Raws(cfg) :
         /\ a' = FromBits(cfg, raw)
         /\ res' = FromBits(cfg, raw)
    /\ src' = FromBitsSrc
    /\ op' = "FromBits"
    /\ b' = 0
    /\ UNCHANGED <<cfg, phase, build>>

\* a = Number(i)
DoFromInt ==
    /\ Fresh
    /\ \E i \in IntInputs(cfg) :
         /\ a' = FromInt(cfg, i)
         /\ res' = FromInt(cfg, i)
         /\ src' = [kind |-> "int", n |-> i]
    /\ op' = "FromInt"
    /\ b' = 0
    /\ UNCHANGED <<cfg, phase, build>>

Unary(name, value) ==
    /\ Constructed
    /\ op' = name
    /\ res' = value
    /\ b' = 0
    /\ UNCHANGED <<cfg, phase, a, src, build>>

DoIntPart == Unary("IntPart", IntPart(cfg, a))

DoFracPart == Unary("FracPart", FracPart(cfg, a))

DoSignBit == Unary("SignBit", IF SignBit(cfg, a) THEN 1 ELSE 0)

DoSign == Unary("Sign", Sign(cfg, a))

DoAbs == Unary("Abs", Abs(cfg, a))

\* res = a * other
DoMul ==
    /\ Constructed
    /\ \E other \in Operands(cfg) :
         /\ b' = other
         /\ res' = Mul(cfg, a, other)
    /\ op' = "Mul"
    /\ UNCHANGED <<cfg, phase, a, src, build>>

\* res = a / other; a zero divisor is undefined behaviour and is left out
DoDiv ==
    /\ Constructed
    /\ \E other \in Operands(cfg) \ {0} :
         /\ b' = other
         /\ res' = Div(cfg, a, other)
    /\ op' = "Div"
    /\ UNCHANGED <<cfg, phase, a, src, build>>

\* res = Sign(a) * Abs(a)
DoSignTimesAbs ==
    /\ Constructed
    /\ b' = Abs(cfg, a)
    /\ res' = Mul(cfg, Sign(cfg, a), Abs(cfg, a))
    /\ op' = "Sign*Abs"
    /\ UNCHANGED <<cfg, phase, a, src, build>>

\* What an arithmetic expression leaves in res and op.  An expression with an
\* overflowing signed sum or difference is undefined: the build either wraps
\* it or traps, and a trapped program runs no further.
Arith(name, value, undefined) ==
    \/ op' = name /\ res' = value
    \/ undefined /\ op' = "trap" /\ res' = 0

\* res = a + other
DoAdd ==
    /\ Constructed
    /\ \E other \in AddOperands(cfg) :
         /\ b' = other
         /\ Arith("Add", Add(cfg, a, other), AddOverflows(cfg, a, other))
    /\ UNCHANGED <<cfg, phase, a, src, build>>

\* res = a - other.  An unsigned 32 bit difference below zero wraps to a value
\* of 2^31 or more, which is not among the values explored.
DoSub ==
    /\ Constructed
    /\ \E other \in {o \in AddOperands(cfg) :
                        cfg.repr.bits < 32 \/ kIsSigned(cfg) \/ o <= a} :
         /\ b' = other
         /\ Arith("Sub", Sub(cfg, a, other), SubOverflows(cfg, a, other))
    /\ UNCHANGED <<cfg, phase, a, src, build>>

\* res = (a + other) - other
DoAddSub ==
    /\ Constructed
    /\ \E other \in AddOperands(cfg) :
         LET sum == Add(cfg, a, other)
         IN  /\ b' = other
             /\ Arith("Add-Sub", Sub(cfg, sum, other),
                      AddOverflows(cfg, a, other) \/ SubOverflows(cfg, sum, other))
    /\ UNCHANGED <<cfg, phase, a, src, build>>

\* x = a; x += other; x -= other; res = x, and b is other after the two calls
DoAddSubAssign ==
    /\ Constructed
    /\ \E other \in AddOperands(cfg) :
         LET added   == AddAssign(cfg, a, other)
             restored == SubAssign(cfg, added.value_, added.other)
         IN  /\ b' = restored.other
             /\ Arith("AddSubAssign", restored.value_,
                      \/ AddOverflows(cfg, a, other)
                      \/ SubOverflows(cfg, added.value_, added.other))
    /\ UNCHANGED <<cfg, phase, a, src, build>>

\* x = a; x *= other; res = x, and b is other after the call
DoMulAssign ==
    /\ Constructed
    /\ \E other \in Operands(cfg) :
         /\ b' = MulAssign(cfg, a, other).other
         /\ res' = MulAssign(cfg, a, other).value_
    /\ op' = "MulAssign"
    /\ UNCHANGED <<cfg, phase, a, src, build>>

\* x = a; x /= other; res = x, and b is other after the call; a zero divisor
\* is undefined behaviour and is left out
DoDivAssign ==
    /\ Constructed
    /\ \E other \in Operands(cfg) \ {0} :
         /\ b' = DivAssign(cfg, a, other).other
         /\ res' = DivAssign(cfg, a, other).value_
    /\ op' = "DivAssign"
    /\ UNCHANGED <<cfg, phase, a, src, build>>

Next ==
    \/ Instantiate
    \/ DoFromBits
    \/ DoFromInt
    \/ DoIntPart
    \/ DoFracPart
    \/ DoSignBit
    \/ DoSign
    \/ DoAbs
    \/ DoMul
    \/ DoDiv
    \/ DoSignTimesAbs
    \/ DoAdd
    \/ DoSub
    \/ DoAddSub
    \/ DoAddSubAssign
    \/ DoMulAssign
    \/ DoDivAssign

Spec == Init /\ [][Next]_vars

----------------------------------------------------------------------------
(* Properties of Number, checked under Spec.                               *)

FromIntOf(n) == src.kind = "int" /\ src.n = n

\* C1: in every accepted instantiation, for every integer n that NumIntBits
\* integer bits hold, Number(n).IntPart() is n.
C1_FromIntIntPart ==
    (Usable /\ src.kind = "int" /\ src.n \in IntRange(cfg)) =>
        /\ IntPart(cfg, a) = src.n
        /\ op = "IntPart" => res = src.n

\* IntPart has returned a negative n, and the 3 of the tests on FP_S32_16
C1_Witness ==
    /\ Usable /\ op = "IntPart" /\ src.kind = "int" /\ res = src.n
    /\ \/ cfg.repr.bits = 8 /\ cfg.intBits = 4 /\ src.n = -8 /\ a = -128
       \/ cfg.repr.bits = 32 /\ kIsSigned(cfg) /\ cfg.intBits = 16 /\ src.n = 3

\* C2: in every accepted instantiation a * PosOne == a and a / PosOne == a.
C2_MulDivIdentity ==
    (Usable /\ op \in {"Mul", "Div"} /\ b = PosOne(cfg)) => res = a

C7_AbsOriginal ==
    (Usable /\ op = "Abs") =>
        /\ Abs(cfg, res) = res
        /\ ~kIsSigned(cfg) => res = a
        /\ (kIsSigned(cfg) /\ src.kind = "int"
              /\ src.n \in IntRange(cfg) /\ -src.n \in IntRange(cfg))
           => res = FromInt(cfg, -src.n)

\* C7, amended: as stated, with the last part for n >= 0 only.
C7_Abs ==
    (Usable /\ op = "Abs") =>
        /\ Abs(cfg, res) = res
        /\ ~kIsSigned(cfg) => res = a
        /\ (kIsSigned(cfg) /\ src.kind = "int" /\ src.n <= 0
              /\ src.n \in IntRange(cfg) /\ -src.n \in IntRange(cfg))
           => res = FromInt(cfg, -src.n)

\* Abs has returned Number(10) for Number(-10), as in the tests, and the most
\* negative raw value for itself
C7_Witness ==
    /\ Usable /\ op = "Abs" /\ kIsSigned(cfg)
    /\ \/ cfg.repr.bits = 32 /\ cfg.intBits = 16 /\ FromIntOf(-10)
          /\ res = FromInt(cfg, 10) /\ res > 0
       \/ cfg.repr.bits = 8 /\ cfg.intBits = 4 /\ a = -128 /\ res = -128

\* C8: for every nonzero signed a, Sign(a) * Abs(a) is within one raw unit
\* of a.
C8_SignTimesAbs ==
    (Usable /\ op = "Sign*Abs" /\ kIsSigned(cfg) /\ a # 0) =>
        res - a \in {-1, 0, 1}

\* C9: an instantiation is accepted only with NumIntBits >= 1, at least one
\* fractional bit, a WideType of the signedness of IntType, strictly wider,
\* and of at most 64 bits; every other one is rejected.
C9_Constraints ==
    LET wanted ==
            /\ cfg.intBits >= 1
            /\ cfg.repr.bits - cfg.intBits >= 1
            /\ cfg.wide.signed = cfg.repr.signed
            /\ cfg.wide.bits > cfg.repr.bits
            /\ cfg.wide.bits <= 64
    IN  /\ phase = "accepted" => wanted
        /\ (phase # "declared" /\ ~wanted) => phase = "rejected"

\* C10: FracPart(a) is Abs(a).raw & FracMask, at least 0 and below
\* 2^kNumFracBits for every a, and for a negative a it is the fractional bits
\* of the magnitude of a.
C10_FracPart ==
    (Usable /\ op = "FracPart") =>
        /\ res = BitAnd(Abs(cfg, a), FracMask(cfg))
        /\ 0 <= res /\ res < Pow2(kNumFracBits(cfg))
        /\ a < 0 => res = (-a) % Pow2(kNumFracBits(cfg))

\* a + b is a value of IntType.  The sampled values of the unsigned 32 bit
\* types are small enough for every sum of two of them to be one.
SumInRepr(c, x, y) ==
    IF c.repr.bits < 32 THEN x + y \in MinOf(c.repr) .. MaxOf(c.repr)
    ELSE ~AddOverflows(c, x, y)

\* C11: for all a, b of an instantiation whose sum a + b does not overflow
\* IntType, (a + b) - b == a; and a += b followed by a -= b restores a and
\* leaves b as it was.
C11_AddSubInverse ==
    (Usable /\ op \in {"Add-Sub", "AddSubAssign"} /\ SumInRepr(cfg, a, b)) =>
        /\ res = a
        /\ b \in AddOperands(cfg)
        /\ Sub(cfg, Add(cfg, a, b), b) = a
        /\ SubAssign(cfg, AddAssign(cfg, a, b).value_, b) = [value_ |-> a, other |-> b]

\* (a + b) - b has returned a where a + b is the largest value of int8_t
C11_Witness ==
    /\ Usable /\ op = "Add-Sub" /\ cfg.repr.bits = 8 /\ kIsSigned(cfg)
    /\ cfg.intBits = 4 /\ a = 124 /\ b = 3 /\ res = 124
    /\ Add(cfg, a, b) = MaxOf(cfg.repr)

\* A right operand of the 32 bit instantiations in quarters of one: every one
\* of Operands is a whole number of them.
Quarters(c, other) == other \div (kScaleFactor(c) \div 4)

\* floor(x * y / 2^FracBits) as an integer.  The 8 bit product is formed as
\* it is; with 32 bits y is m quarters, and the value is floor(x * m / 4).
FloorOfProduct(c, x, y) ==
    IF c.repr.bits = 8 THEN (x * y) \div Pow2(kNumFracBits(c))
    ELSE (x * Quarters(c, y)) \div 4

\* C12: in an instantiation whose WideType has twice the width of IntType the
\* product of the widened raws fits WideType, and a * b has the raw
\* floor(a.raw * b.raw / 2^FracBits) when IntType holds it and its low bits
\* otherwise; operator*= leaves the same raw in its left operand.
C12_Mul ==
    (Usable /\ op \in {"Mul", "MulAssign"}) =>
        LET exact == FloorOfProduct(cfg, a, b)
        IN  /\ cfg.wide.bits = 2 * cfg.repr.bits
            /\ cfg.repr.bits = 8 => a * b \in MinOf(cfg.wide) .. MaxOf(cfg.wide)
            /\ cfg.repr.bits = 32 =>
                  b = Quarters(cfg, b) * (kScaleFactor(cfg) \div 4)
            /\ res = Narrow(cfg, exact)
            /\ (cfg.repr.bits = 8 /\ exact \in MinOf(cfg.repr) .. MaxOf(cfg.repr))
                  => res = exact
            /\ Mul(cfg, a, b) = res
            /\ MulAssign(cfg, a, b) = [value_ |-> res, other |-> b]

\* x *= b has left the floor -1 of -9/16, which rounded toward zero is 0
C12_Witness ==
    /\ Usable /\ op = "MulAssign" /\ cfg.repr.bits = 8 /\ kIsSigned(cfg)
    /\ cfg.intBits = 4 /\ a = -3 /\ b = 3 /\ res = -1

\* n / d of the integers, rounded toward zero (d # 0)
TruncatedQuotient(n, d) ==
    IF (n < 0) = (d < 0) THEN Magnitude(n) \div Magnitude(d)
    ELSE -(Magnitude(n) \div Magnitude(d))

\* (x * 2^FracBits) / y rounded toward zero.  The 8 bit dividend is formed as
\* it is; with 32 bits y is m quarters, and the value is (4 * x) / m.
QuotientOfShifted(c, x, y) ==
    IF c.repr.bits = 8 THEN TruncatedQuotient(x * Pow2(kNumFracBits(c)), y)
    ELSE TruncatedQuotient(4 * x, Quarters(c, y))

\* (x / y) * 2^FracBits: the quotient shifted after the divide
ShiftedAfterDivide(c, x, y) == TruncatedQuotient(x, y) * Pow2(kNumFracBits(c))

\* C13: for all a and all b with a nonzero raw the dividend a.raw * 2^FracBits
\* fits WideType, and a / b has the raw (a.raw * 2^FracBits) / b.raw rounded
\* toward zero when IntType holds it and its low bits otherwise, which is not
\* (a.raw / b.raw) * 2^FracBits; operator/= leaves the same raw in its left
\* operand.
C13_Div ==
    (Usable /\ op \in {"Div", "DivAssign"}) =>
        LET exact == QuotientOfShifted(cfg, a, b)
        IN  /\ b # 0
            /\ cfg.repr.bits = 8 =>
                  a * Pow2(kNumFracBits(cfg)) \in MinOf(cfg.wide) .. MaxOf(cfg.wide)
            /\ cfg.repr.bits = 32 =>
                  b = Quarters(cfg, b) * (kScaleFactor(cfg) \div 4)
            /\ res = Narrow(cfg, exact)
            /\ (cfg.repr.bits = 8 /\ exact \in MinOf(cfg.repr) .. MaxOf(cfg.repr))
                  => res = exact
            /\ Div(cfg, a, b) = res
            /\ DivAssign(cfg, a, b) = [value_ |-> res, other |-> b]

\* x /= b has left -85, the quotient -256 / 3 rounded toward zero, where
\* shifting after the divide gives -80
C13_Witness ==
    /\ Usable /\ op = "DivAssign" /\ cfg.repr.bits = 8 /\ kIsSigned(cfg)
    /\ cfg.intBits = 4 /\ a = -16 /\ b = 3 /\ res = -85
    /\ ShiftedAfterDivide(cfg, a, b) = -80

\* C14: with a signed IntType Abs(a) has the raw |a.raw|, which is not
\* negative, for every a but the most negative raw value; of that one the
\* widened negation narrows back to itself, so Abs(a) == a and its sign bit
\* is still set.
C14_AbsOfMin ==
    (Usable /\ op = "Abs" /\ kIsSigned(cfg)) =>
        IF a = MinOf(cfg.repr)
        THEN res = a /\ res < 0 /\ SignBit(cfg, res)
        ELSE res = Magnitude(a) /\ res >= 0 /\ ~SignBit(cfg, res)

\* Abs has returned the most negative int8_t for itself, the sign bit set
C14_Witness ==
    /\ Usable /\ op = "Abs" /\ kIsSigned(cfg) /\ cfg.repr.bits = 8
    /\ cfg.intBits = 2 /\ a = MinOf(cfg.repr) /\ res = -128
    /\ SignBit(cfg, res) /\ -Widen(cfg, a) = 128

----------------------------------------------------------------------------
(* SpecC: main.c applies its functions to an fp_int_t.                     *)

\* the raw values tried lie up to FracSpread from a whole number, from a
\* half and from the next whole number
FracSpread == 1

CConfig == Config(fp_int_t, [signed |-> TRUE, bits |-> 2 * FP_NUM_BITS], FP_INT_BITS)

\* whole numbers: the ends of the range, and those main() uses
CInts == {-8192, -8191, -43, -42, -19, -18, -1, 0, 1, 18, 19, 42, 45, 8190, 8191}

\* the float literals of main(), in tenths, and their negatives
CTenths == {-425, -186, -185, -182, -180, 180, 182, 185, 186, 425, 33}

CFracs ==
    (0 .. FracSpread)
    \cup (FP_VAL_HALF - FracSpread .. FP_VAL_HALF + FracSpread)
    \cup (FP_SCALE_FACTOR - FracSpread .. FP_SCALE_FACTOR - 1)

\* x * 2^FP_SCALE truncated toward zero, for x = num / den
TruncScaled(num, den) ==
    IF num < 0 THEN -(((-num) * FP_SCALE_FACTOR) \div den)
    ELSE (num * FP_SCALE_FACTOR) \div den

CRaws ==
    {k * FP_SCALE_FACTOR + d : k \in CInts, d \in CFracs}
    \cup {TruncScaled(t, 10) : t \in CTenths}

InitC ==
    /\ cfg = CConfig
    /\ phase = "accepted"
    /\ a = 0
    /\ b = 0
    /\ src = FromBitsSrc
    /\ op = "none"
    /\ res = 0
    /\ build \in {"wrap", "trap"}

CConstruct(kind, n, value) ==
    /\ op = "none"
    /\ a' = value
    /\ res' = value
    /\ src' = [kind |-> kind, n |-> n]
    /\ op' = "constructed"
    /\ UNCHANGED <<cfg, phase, b, build>>

\* fp_int_t a = raw
CFromRaw == \E raw \in CRaws : CConstruct("bits", 0, raw)

\* fp_int_t a = FP_FROM_INT(k)
CFromInt == \E k \in CInts : CConstruct("int", k, FP_FROM_INT(k))

\* fp_int_t a = float_to_fp(t / 10)
CFromFloat == \E t \in CTenths : CConstruct("float", t, float_to_fp(t, 10))

\* res = f(a); a call that meets an overflowing sum ends a trapping build
CCall(name, value, overflows) ==
    /\ op = "constructed"
    /\ IF overflows /\ build = "trap"
       THEN op' = "trap" /\ res' = 0
       ELSE op' = name /\ res' = value
    /\ UNCHANGED <<cfg, phase, a, b, src, build>>

CAbs == CCall("fp_abs", fp_abs(a), fp_abs_overflows(a))

CFrac == CCall("fp_frac", fp_frac(a), fp_abs_overflows(a))

CFloor == CCall("fp_floor", fp_floor(a), fp_floor_overflows(a))

CCeil == CCall("fp_ceil", fp_ceil(a), fp_ceil_overflows(a))

CRound == CCall("fp_round", fp_round(a), fp_round_overflows(a))

NextC ==
    \/ CFromRaw
    \/ CFromInt
    \/ CFromFloat
    \/ CAbs
    \/ CFrac
    \/ CFloor
    \/ CCeil
    \/ CRound

SpecC == InitC /\ [][NextC]_vars

----------------------------------------------------------------------------
(* Properties of the rounding family, checked under SpecC.                 *)

\* the floor and the ceiling of a are values of fp_int_t
FloorCeilRepresentable(x) == x <= INT_MAX - (FP_SCALE_FACTOR - 1)

\* C3: for every a whose floor and ceil are representable,
\* fp_floor(a) <= a <= fp_ceil(a), and fp_floor(a) = a = fp_ceil(a) exactly
\* when fp_frac(a) = 0.
C3_FloorCeil ==
    (op \in {"fp_floor", "fp_ceil"} /\ FloorCeilRepresentable(a)) =>
        /\ op = "fp_floor" => res <= a
        /\ op = "fp_ceil" => a <= res
        /\ res = a <=> fp_frac(a) = 0

\* sign(a) * floor(|a| + 1/2), scaled: the whole number nearest to a, a half
\* going away from zero
NearestHalfAway(x) ==
    IF x >= 0
    THEN ((x + FP_VAL_HALF) \div FP_SCALE_FACTOR) * FP_SCALE_FACTOR
    ELSE ((x + FP_VAL_HALF - 1) \div FP_SCALE_FACTOR) * FP_SCALE_FACTOR

\* the rounded a is a value of fp_int_t
RoundRepresentable(x) == x <= INT_MAX - FP_VAL_HALF

\* C4: for every a whose rounded value is representable, fp_round(a) is the
\* whole number nearest to a, a half going away from zero; 18.5 gives 19,
\* -18.5 gives -19, 18.2 gives 18 and 18.6 gives 19, both with float_to_fp
\* and with the decimal truncated toward zero.
C4_Round ==
    (op = "fp_round" /\ RoundRepresentable(a)) =>
        /\ res = NearestHalfAway(a)
        /\ \A t \in CTenths :
             (\/ src.kind = "float" /\ src.n = t
              \/ src.kind = "bits" /\ a = TruncScaled(t, 10))
             => /\ t = 185 => res = FP_FROM_INT(19)
                /\ t = -185 => res = FP_FROM_INT(-19)
                /\ t = 182 => res = FP_FROM_INT(18)
                /\ t = 186 => res = FP_FROM_INT(19)

\* fp_round has rounded -18.5 to -19
C4_Witness ==
    /\ op = "fp_round" /\ src.kind = "float" /\ src.n = -185
    /\ a = -4849664 /\ res = FP_FROM_INT(-19)

----------------------------------------------------------------------------
(* SpecADC: the ADC example of main() in main.cpp, on an unsigned 32 bit   *)
(* Number.  main.cpp instantiates it with 14 integer bits (U32_14); the    *)
(* scenario is also run with 18.                                           *)

AdcMax == 4095

AdcReading == 3185

ADCConfigs ==
    {Config([signed |-> FALSE, bits |-> 32], [signed |-> FALSE, bits |-> 64], n) :
        n \in {14, 18}}

\* Number(T i) of main.cpp, which shifts in IntType
MainFromInt(c, i) == Narrow(c, ShiftLeft(Narrow(c, i), kNumFracBits(c)))

InitADC ==
    /\ cfg \in ADCConfigs
    /\ phase = "accepted"
    /\ a = 0
    /\ b = 0
    /\ src = FromBitsSrc
    /\ op = "none"
    /\ res = 0
    /\ build = "wrap"

\* FPU adc_fp = adc_reading, for every reading of the 12 bit converter
AdcRead ==
    /\ op = "none"
    /\ \E reading \in 0 .. AdcMax :
         /\ a' = MainFromInt(cfg, reading)
         /\ res' = MainFromInt(cfg, reading)
         /\ src' = [kind |-> "int", n |-> reading]
    /\ op' = "adc_fp"
    /\ UNCHANGED <<cfg, phase, b, build>>

\* adc_fp / adc_max
AdcDivide ==
    /\ op = "adc_fp"
    /\ b' = MainFromInt(cfg, AdcMax)
    /\ res' = Div(cfg, a, MainFromInt(cfg, AdcMax))
    /\ op' = "adc/max"
    /\ UNCHANGED <<cfg, phase, a, src, build>>

\* real_voltage = (adc_fp / adc_max) * ref_voltage, ref_voltage {3.3f}
AdcScale ==
    /\ op = "adc/max"
    /\ a' = res
    /\ b' = FromFloat(cfg, 33, 10)
    /\ res' = Mul(cfg, res, FromFloat(cfg, 33, 10))
    /\ op' = "real_voltage"
    /\ UNCHANGED <<cfg, phase, src, build>>

NextADC ==
    \/ AdcRead
    \/ AdcDivide
    \/ AdcScale

SpecADC == InitADC /\ [][NextADC]_vars

\* C5 as stated: with 18 integer bits, adc = 3185, max = 4095 and ref = 3.3,
\* the raw value of (adc / max) * ref over 2^kNumFracBits lies strictly between
\* 2.47 and 2.49.
C5_VoltageOriginal ==
    (op = "real_voltage" /\ src.n = AdcReading /\ cfg.intBits = 18) =>
        /\ 247 * Pow2(kNumFracBits(cfg)) < 100 * res
        /\ 100 * res < 249 * Pow2(kNumFracBits(cfg))

\* C5, amended: it lies strictly between 2.56 and 2.57, with 18 integer bits
\* and with the 14 of main.cpp.
C5_Voltage ==
    (op = "real_voltage" /\ src.n = AdcReading) =>
        /\ 256 * Pow2(kNumFracBits(cfg)) < 100 * res
        /\ 100 * res < 257 * Pow2(kNumFracBits(cfg))

\* the scenario has run to its end with 18 integer bits
C5_Witness ==
    /\ op = "real_voltage" /\ src.n = AdcReading /\ cfg.intBits = 18
    /\ a = 12743 /\ b = 54067 /\ res = 42051

=============================================================================
